---- MODULE Spec2Model ----
(***************************************************************************)
(* Verification model of sveltekit-adapter-aws' Pulumi deployment program. *)
(*                                                                         *)
(* Three specifications share the module:                                  *)
(*   SpecInvalidate  successive `pulumi up` runs over the resources of     *)
(*                   buildInvalidator (the two PathHash dynamic resources  *)
(*                   and the Invalidate command), with edits of the asset  *)
(*                   directories between runs and runs that fail;          *)
(*   SpecGraph       the declaration of the whole resource graph and the   *)
(*                   engine's creation of it in every order the edges      *)
(*                   allow;                                                *)
(*   SpecUnit        direct calls of validateCertificate and               *)
(*                   createAliasRecord on arbitrary domain strings.        *)
(* Each specification leaves the variables of the others at their initial  *)
(* values.                                                                 *)
(***************************************************************************)
EXTENDS Integers, Sequences, FiniteSets, TLC

VARIABLES
    \* ---- SpecInvalidate ----
    interpreter,      \* shell the command provider runs `create` with
    content,          \* asset root -> directory tree now on disk
    pathHash,         \* asset root -> hash output kept in the stack state
    command,          \* the Invalidate command kept in the stack state
    distribution,     \* whether CloudFrontDistribution is in the stack state
    phase,            \* "idle" | "running" | "done" | "failed"
    decision,         \* asset root -> step the engine took for its PathHash
    stepDone,         \* other resources already processed by this run
    requests,         \* invalidation requests issued by this run
    pathHashAtStart,  \* pathHash as the run found it
    commandAtStart,   \* command as the run found it
    contentAtStart,   \* content as the run found it
    prevRun,          \* how the previous run ended
    \* ---- SpecGraph ----
    config,           \* deployment configuration (FQDN set?, routes, files)
    pc,               \* index of the next declaration of the program
    declared,         \* positions of the statements registered so far
    graphError,       \* error raised while registering
    created,          \* names of the resources the engine has created
    deleted,          \* names of the resources a teardown has deleted
    engine,           \* "up" | "destroy"
    \* ---- SpecUnit ----
    unitIn,           \* arguments of the call
    unitOp,           \* function called ("none" before the call)
    unitOut,          \* what the call did
    \* ---- SpecCrawl ----
    fsIn,             \* the sync root: its path and what the disk holds there
    crawl,            \* progress of uploadStatic's directory crawl
    s3                \* what the bucket holds, and the uploads done

invVars == <<interpreter, content, pathHash, command, distribution, phase,
             decision, stepDone, requests, pathHashAtStart, commandAtStart,
             contentAtStart, prevRun>>
graphVars == <<config, pc, declared, graphError, created, deleted, engine>>
unitVars == <<unitIn, unitOp, unitOut>>
crawlVars == <<fsIn, crawl, s3>>
vars == <<invVars, graphVars, unitVars, crawlVars>>

Range(s) == {s[i] : i \in 1..Len(s)}

(***************************************************************************)
(* Bounds                                                                  *)
(***************************************************************************)
\* Number of distinct directory trees an asset root can hold; tree 0 is the
\* empty directory.
NumTrees == 2

Trees == 0..(NumTrees - 1)
EmptyTree == 0

(***************************************************************************)
(* buildInvalidator: content fingerprints                                  *)
(***************************************************************************)
\* Logical names of the two PathHash resources; StaticHash hashes staticPath
\* and PrerenderedHash hashes prerenderedPath.
Roots == {"StaticHash", "PrerenderedHash"}

\* previousOutput.hash of a PathHash that is not in the stack state.
NoHash == <<"undefined">>

\* A command that is not in the stack state.
NoCommand == [present |-> FALSE, triggers |-> [r \in Roots |-> NoHash]]

\* (await hashElement(path)).toString(): the folder-hash digest of the tree
\* under the root, rendered as text.  Two trees have equal text exactly when
\* they are the same tree (collision resistance of the digest is assumed).
hashElement(root) == <<"sha1", content[root]>>

\* pathHashProvider.create
create(root) == [id |-> root, outs |-> [hash |-> hashElement(root)]]

diff_never(root) ==
    [deleteBeforeReplace |-> FALSE, replaces |-> <<>>, changes |-> FALSE]

\* pathHashProvider.diff: `changes` starts true and is cleared when the old
\* hash equals the hash of the tree now on disk.
diff(root) ==
    [deleteBeforeReplace |-> FALSE,
     replaces |-> <<>>,
     changes |-> ~(pathHash[root] = hashElement(root))]

\* pathHashProvider.update
update(root) == [outs |-> [hash |-> hashElement(root)]]

\* The step the engine takes for a PathHash: create when the state holds none,
\* otherwise update when diff reports changes, otherwise nothing.
PathHashPlan(root) ==
    IF pathHash[root] = NoHash THEN "create"
    ELSE IF diff(root).changes THEN "update"
    ELSE "same"

\* The Changed / Unchanged decision of a run once both roots were compared:
\* Changed when either root has no predecessor or differs from it.
Decided == \A r \in Roots : decision[r] # "pending"
Decision ==
    IF \E r \in Roots : decision[r] \in {"create", "update"}
    THEN "Changed" ELSE "Unchanged"

(***************************************************************************)
(* buildInvalidator: the Invalidate command                                *)
(***************************************************************************)
\* Source text of the last argument of the `create` template: /\*
pathsSource == <<"/", "\\", "*">>

\* The cooked value of a template literal: a backslash before a character
\* that starts no escape sequence is dropped and the character kept.
RECURSIVE Cook(_)
Cook(raw) ==
    IF raw = <<>> THEN <<>>
    ELSE IF Head(raw) = "\\" /\ Len(raw) >= 2
         THEN <<raw[2]>> \o Cook(SubSeq(raw, 3, Len(raw)))
         ELSE <<Head(raw)>> \o Cook(Tail(raw))

\* Entries of the root directory of the host that runs the command.
hostRoot == {"bin", "etc"}

\* What the interpreter hands to the aws CLI for one word of the command
\* line.  /bin/sh expands an unquoted word holding * against the filesystem
\* (the word is kept when nothing matches); cmd /C passes it on as written.
Expand(word, interp) ==
    IF interp = "sh" /\ word = <<"/", "*">> /\ hostRoot # {}
    THEN {<<"/", e>> : e \in hostRoot}
    ELSE {word}

Wildcard == <<"/", "*">>

\* The request one execution of `create` sends:
\* aws cloudfront create-invalidation --distribution-id <id> --paths <paths>
invalidationCommand(interp) ==
    [distributionId |-> "CloudFrontDistribution-id",
     paths |-> Expand(Cook(pathsSource), interp)]

\* triggers: [staticHash.hash, prerenderedHash.hash]
triggers == [r \in Roots |-> pathHash[r]]

CommandPlan_replaceOnly(cmd, trig) ==
    IF cmd.present /\ cmd.triggers # trig THEN "replace" ELSE "same"

CommandPlan_createOnly(cmd, trig) ==
    IF ~cmd.present THEN "create" ELSE "same"

CommandPlan_always(cmd, trig) ==
    IF ~cmd.present THEN "create" ELSE "replace"

\* The step the engine takes for the command: create when the state holds
\* none, replace (run `create` again) when a trigger changed, else nothing.
CommandPlan(cmd, trig) ==
    IF ~cmd.present THEN "create"
    ELSE IF cmd.triggers # trig THEN "replace"
    ELSE "same"

(***************************************************************************)
(* Domain names                                                            *)
(***************************************************************************)
\* Longest domain string passed as FQDN / target domain (long enough for
\* three non-empty labels).
MaxDomainLen == 5

\* Longest domain string passed as the hosted zone's name.
MaxZoneLen == 1

\* Characters of a domain string: two letters and the label separator.
Chars == {"a", "b", "."}

RECURSIVE StringsUpTo(_)
StringsUpTo(n) ==
    IF n = 0 THEN {<<>>}
    ELSE LET shorter == StringsUpTo(n - 1) IN
         shorter \cup {Append(w, c) : w \in shorter, c \in Chars}

\* domain.split('.'): the pieces between separators; a string without a
\* separator (the empty string too) is one piece.
RECURSIVE split(_)
split(domain) ==
    IF \A i \in 1..Len(domain) : domain[i] # "."
    THEN <<domain>>
    ELSE LET dot == CHOOSE i \in 1..Len(domain) :
                        /\ domain[i] = "."
                        /\ \A j \in 1..(i - 1) : domain[j] # "."
         IN <<SubSeq(domain, 1, dot - 1)>>
                \o split(SubSeq(domain, dot + 1, Len(domain)))

\* parts.join('.')
RECURSIVE join(_)
join(parts) ==
    IF parts = <<>> THEN <<>>
    ELSE IF Len(parts) = 1 THEN parts[1]
    ELSE parts[1] \o <<".">> \o join(Tail(parts))

getDomainAndSubdomain_noCheck(domain) ==
    LET parts == split(domain) IN
    IF Len(parts) = 2
    THEN [threw |-> FALSE, subdomain |-> <<>>, parentDomain |-> domain]
    ELSE [threw |-> FALSE,
          subdomain |-> parts[1],
          parentDomain |-> join(Tail(parts)) \o <<".">>]

getDomainAndSubdomain_noTrailingDot(domain) ==
    LET parts == split(domain) IN
    IF Len(parts) < 2
    THEN [threw |-> TRUE, subdomain |-> <<>>, parentDomain |-> <<>>]
    ELSE IF Len(parts) = 2
    THEN [threw |-> FALSE, subdomain |-> <<>>, parentDomain |-> domain]
    ELSE [threw |-> FALSE,
          subdomain |-> parts[1],
          parentDomain |-> join(Tail(parts))]

getDomainAndSubdomain_dropLabel(domain) ==
    LET parts == split(domain) IN
    IF Len(parts) < 2
    THEN [threw |-> TRUE, subdomain |-> <<>>, parentDomain |-> <<>>]
    ELSE IF Len(parts) = 2
    THEN [threw |-> FALSE, subdomain |-> <<>>, parentDomain |-> domain]
    ELSE [threw |-> FALSE,
          subdomain |-> parts[1],
          parentDomain |-> join(Tail(Tail(parts))) \o <<".">>]

\* getDomainAndSubdomain: throws `No TLD found on <domain>` for fewer than two
\* parts; two parts give no subdomain and the domain itself; more give the
\* first part and the rest joined, with a trailing separator.
getDomainAndSubdomain(domain) ==
    LET parts == split(domain) IN
    IF Len(parts) < 2
    THEN [threw |-> TRUE, subdomain |-> <<>>, parentDomain |-> <<>>]
    ELSE IF Len(parts) = 2
    THEN [threw |-> FALSE, subdomain |-> <<>>, parentDomain |-> domain]
    ELSE [threw |-> FALSE,
          subdomain |-> parts[1],
          parentDomain |-> join(Tail(parts)) \o <<".">>]

(***************************************************************************)
(* The resources the program declares                                      *)
(*                                                                         *)
(* A statement of the program either registers a resource or throws.  A    *)
(* resource has a type, a logical name (a tuple, so that names built from  *)
(* a domain string compare with the literal ones), the names of the        *)
(* resources whose outputs its arguments read (`inputs`) and the names its *)
(* options give as dependsOn, parent or provider (`opts`).                 *)
(***************************************************************************)
Resource(type, name, inputs, opts, attrs) ==
    [kind |-> "resource", type |-> type, name |-> name,
     inputs |-> inputs, opts |-> opts, attrs |-> attrs]

Throw(message) == [kind |-> "throw", error |-> message]

NoAttrs == [none |-> TRUE]

\* The edges of a resource: the engine records a dependency on every resource
\* whose output an argument reads, and on every resource its options name.
Edges(r) == r.inputs \cup r.opts

getLambdaRole ==
    <<Resource("aws:iam:Role", <<"IamForLambda">>, {}, {}, NoAttrs)>>

buildServer_permissionFirst ==
    <<Resource("aws:iam:RolePolicyAttachment", <<"ServerRPABasicExecutionRole">>,
               {<<"IamForLambda">>}, {}, NoAttrs),
      Resource("aws:lambda:Permission", <<"ServerPermission">>,
               {<<"LambdaServerFunctionHandler">>, <<"API">>},
               {<<"API">>, <<"LambdaServerFunctionHandler">>}, NoAttrs),
      Resource("aws:lambda:Function", <<"LambdaServerFunctionHandler">>,
               {<<"IamForLambda">>}, {}, NoAttrs),
      Resource("aws:apigatewayv2:Api", <<"API">>, {}, {}, NoAttrs),
      Resource("aws:apigatewayv2:Integration", <<"ServerIntegration">>,
               {<<"API">>, <<"LambdaServerFunctionHandler">>}, {}, NoAttrs),
      Resource("aws:apigatewayv2:Route", <<"DefaultRoute">>,
               {<<"API">>, <<"ServerIntegration">>},
               {<<"ServerIntegration">>}, NoAttrs)>>

\* buildServer: policy attachment, function, API, permission, integration and
\* default route, in this order.
buildServer ==
    <<Resource("aws:iam:RolePolicyAttachment", <<"ServerRPABasicExecutionRole">>,
               {<<"IamForLambda">>}, {}, NoAttrs),
      Resource("aws:lambda:Function", <<"LambdaServerFunctionHandler">>,
               {<<"IamForLambda">>}, {}, NoAttrs),
      Resource("aws:apigatewayv2:Api", <<"API">>, {}, {}, NoAttrs),
      Resource("aws:lambda:Permission", <<"ServerPermission">>,
               {<<"LambdaServerFunctionHandler">>, <<"API">>},
               {<<"API">>, <<"LambdaServerFunctionHandler">>}, NoAttrs),
      Resource("aws:apigatewayv2:Integration", <<"ServerIntegration">>,
               {<<"API">>, <<"LambdaServerFunctionHandler">>}, {}, NoAttrs),
      Resource("aws:apigatewayv2:Route", <<"DefaultRoute">>,
               {<<"API">>, <<"ServerIntegration">>},
               {<<"ServerIntegration">>}, NoAttrs)>>

\* Logical name of the DNS validation record: `${FQDN}.validation`.
validationName(FQDN) == FQDN \o <<".validation">>

\* validateCertificate: the east provider, the certificate, the validation
\* record built from the certificate's validation options (in the zone looked
\* up by domainName) and the certificate validation.  No statement compares
\* FQDN with domainName.
validateCertificate(FQDN, domainName) ==
    <<Resource("pulumi:providers:aws", <<"east">>, {}, {}, NoAttrs),
      Resource("aws:acm:Certificate", <<"Certificate">>,
               {}, {<<"east">>}, [domainName |-> FQDN]),
      Resource("aws:route53:Record", validationName(FQDN),
               {<<"Certificate">>}, {}, [zone |-> domainName]),
      Resource("aws:acm:CertificateValidation", <<"CertificateValidation">>,
               {<<"Certificate">>, validationName(FQDN)},
               {<<"east">>}, NoAttrs)>>

validateCertificateArn_unvalidated == <<"Certificate">>

\* The resource whose certificateArn output validateCertificate returns.
validateCertificateArn == <<"CertificateValidation">>

RECURSIVE SeqOf(_)
SeqOf(S) ==
    IF S = {} THEN <<>>
    ELSE LET x == CHOOSE y \in S : TRUE IN <<x>> \o SeqOf(S \ {x})

\* str.replace(pattern, replacement) with a string pattern: the first
\* occurrence of the pattern is replaced, a string without one is unchanged.
replace(str, pattern, replacement) ==
    LET hits == {i \in 1..(Len(str) - Len(pattern) + 1) :
                    SubSeq(str, i, i + Len(pattern) - 1) = pattern}
    IN IF hits = {} THEN str
       ELSE LET first == CHOOSE i \in hits : \A j \in hits : i <= j IN
            SubSeq(str, 1, first - 1) \o replacement
                \o SubSeq(str, first + Len(pattern), Len(str))

RECURSIVE replaceAll(_, _, _)
replaceAll(str, pattern, replacement) ==
    IF replace(str, pattern, replacement) = str THEN str
    ELSE replaceAll(replace(str, pattern, replacement), pattern, replacement)

relativeFilePath_keepRoot(filePath, path) == filePath

relativeFilePath_replaceAll(filePath, path) ==
    replaceAll(filePath, path \o <<"/">>, <<>>)

\* relativeFilePath = filePath.replace(path + '/', '')
relativeFilePath(filePath, path) == replace(filePath, path \o <<"/">>, <<>>)

\* The callback of the crawl: a bucket object named by the file's path
\* relative to the root, with that path as key, the file as source and the
\* bucket as parent.
BucketObject(filePath, path) ==
    Resource("aws:s3:BucketObject", relativeFilePath(filePath, path),
             {<<"StaticContentBucket">>}, {<<"StaticContentBucket">>},
             [key |-> relativeFilePath(filePath, path),
              bucket |-> <<"StaticContentBucket">>,
              source |-> filePath])

\* uploadStatic: one bucket object per file the crawl finds under the root
\* (files: their paths below the root).
uploadStatic(path, files) ==
    [i \in 1..Cardinality(files) |->
        BucketObject(path \o <<"/">> \o SeqOf(files)[i], path)]

\* The asset roots STATIC_PATH and PRERENDERED_PATH.
staticPath == <<"s">>

prerenderedPath == <<"p">>

\* buildStatic: the bucket, then the objects of the static root, then those
\* of the prerendered root.
buildStatic(staticFiles, prerenderedFiles) ==
    <<Resource("aws:s3:Bucket", <<"StaticContentBucket">>, {}, {}, NoAttrs)>>
        \o uploadStatic(staticPath, staticFiles)
        \o uploadStatic(prerenderedPath, prerenderedFiles)

buildBehavior_dynamicOrigin(route) ==
    [policy |->
        Resource("aws:cloudfront:OriginRequestPolicy", <<"RouteRequestPolicy">>,
                 {}, {}, NoAttrs),
     behavior |->
        [pathPattern |-> route,
         targetOriginId |-> "httpOrigin",
         originRequestPolicyId |-> <<"RouteRequestPolicy">>,
         cachePolicy |-> "Managed-CachingOptimized"]]

\* buildBehavior: registers an origin request policy named RouteRequestPolicy
\* and returns a behavior for the route that reads the policy's id, targets
\* the bucket origin and uses the optimized managed cache policy.
buildBehavior(route) ==
    [policy |->
        Resource("aws:cloudfront:OriginRequestPolicy", <<"RouteRequestPolicy">>,
                 {}, {}, NoAttrs),
     behavior |->
        [pathPattern |-> route,
         targetOriginId |-> "s3Origin",
         originRequestPolicyId |-> <<"RouteRequestPolicy">>,
         cachePolicy |-> "Managed-CachingOptimized"]]

\* The effect of a policy statement that is written without one.
NoEffect == "undefined"

\* A statement of aws.iam.getPolicyDocumentOutput: principals, actions,
\* resources and one condition.  The effect of a statement is optional and
\* defaults to Allow.
PolicyStatement(effect, principals, actions, resources, condition) ==
    [effect |-> IF effect = NoEffect THEN "Allow" ELSE effect,
     principals |-> principals,
     actions |-> actions,
     resources |-> resources,
     condition |-> condition]

\* cloudFrontPolicyDocument: the two statements of the bucket policy, in the
\* order of the document.  Neither is written with an effect.
cloudFrontPolicyDocument ==
    <<PolicyStatement(NoEffect,
                      [type |-> "Service",
                       identifiers |-> {"cloudfront.amazonaws.com"}],
                      {"s3:GetObject"},
                      {"StaticContentBucket.arn/*"},
                      [test |-> "StringEquals", variable |-> "AWS:SourceArn",
                       values |-> {"CloudFrontDistribution.arn"}]),
      PolicyStatement(NoEffect,
                      [type |-> "AWS", identifiers |-> {"*"}],
                      {"s3:*"},
                      {"StaticContentBucket.arn/*", "StaticContentBucket.arn"},
                      [test |-> "Bool", variable |-> "aws:SecureTransport",
                       values |-> {"false"}])>>

\* An optional argument that was left out.
Undefined == [defined |-> FALSE, items |-> <<>>]

Defined(items) == [defined |-> TRUE, items |-> items]

\* buildCDN: origin access identity, default request policy, origin access
\* control, the policies of routes.map(buildBehavior) (the arguments are
\* evaluated before the distribution is registered), the distribution and the
\* bucket policy.  routes is the list of path patterns; FQDN is the value of
\* process.env.FQDN, which the function reads for the aliases and the viewer
\* certificate (an empty value counts as unset).
buildCDN(certificateArn, routes, FQDN) ==
    <<Resource("aws:cloudfront:OriginAccessIdentity", <<"OriginAccessIdentity">>,
               {}, {}, NoAttrs),
      Resource("aws:cloudfront:OriginRequestPolicy", <<"DefaultRequestPolicy">>,
               {}, {}, NoAttrs),
      Resource("aws:cloudfront:OriginAccessControl",
               <<"CloudFrontOriginAccessControl">>, {}, {}, NoAttrs)>>
    \o [i \in 1..Len(routes) |-> buildBehavior(routes[i]).policy]
    \o <<Resource("aws:cloudfront:Distribution", <<"CloudFrontDistribution">>,
                  {<<"API">>, <<"StaticContentBucket">>,
                   <<"CloudFrontOriginAccessControl">>,
                   <<"DefaultRequestPolicy">>}
                    \cup (IF FQDN # <<>> THEN {certificateArn} \ {<<>>} ELSE {})
                    \cup {buildBehavior(routes[i]).behavior.originRequestPolicyId :
                            i \in 1..Len(routes)},
                  {},
                  [origins |->
                      <<[originId |-> "httpOrigin", domainName |-> <<"API">>],
                        [originId |-> "s3Origin",
                         domainName |-> <<"StaticContentBucket">>]>>,
                   aliases |->
                      IF FQDN # <<>> THEN Defined(<<FQDN>>) ELSE Undefined,
                   viewerCertificate |->
                      IF FQDN # <<>>
                      THEN [acmCertificateArn |-> certificateArn,
                            sslSupportMethod |-> "sni-only"]
                      ELSE [cloudfrontDefaultCertificate |-> TRUE],
                   defaultCacheBehavior |->
                      [targetOriginId |-> "httpOrigin",
                       originRequestPolicyId |-> <<"DefaultRequestPolicy">>,
                       cachePolicy |-> "Managed-CachingDisabled"],
                   orderedCacheBehaviors |->
                      [i \in 1..Len(routes) |-> buildBehavior(routes[i]).behavior],
                   acmCertificateArn |->
                      IF FQDN # <<>> THEN certificateArn ELSE <<>>]),
         Resource("aws:s3:BucketPolicy", <<"CloudFrontBucketPolicy">>,
                  {<<"StaticContentBucket">>, <<"CloudFrontDistribution">>},
                  {},
                  [bucket |-> <<"StaticContentBucket">>,
                   policy |-> cloudFrontPolicyDocument])>>

\* createAliasRecord: splits the target domain (which may throw) and registers
\* an A record named by the target domain, in the parent domain's zone,
\* pointing at the distribution.
createAliasRecord(targetDomain) ==
    LET domainParts == getDomainAndSubdomain(targetDomain) IN
    IF domainParts.threw
    THEN <<Throw("No TLD found")>>
    ELSE <<Resource("aws:route53:Record", targetDomain,
                    {<<"CloudFrontDistribution">>}, {},
                    [zone |-> domainParts.parentDomain,
                     name |-> domainParts.subdomain])>>

\* The origin `https://${domain}`.
https(domain) == <<"https://">> \o domain

\* The domain name output of the distribution.
distributionDomainName == <<"CloudFrontDistribution.domainName">>

allowedOrigins_always(FQDN) ==
    <<https(distributionDomainName), https(FQDN)>>

\* allowedOrigins: the distribution's origin, and the custom domain's when
\* process.env.FQDN is set (an empty value counts as unset).
allowedOrigins(FQDN) ==
    <<https(distributionDomainName)>>
        \o (IF FQDN # <<>> THEN <<https(FQDN)>> ELSE <<>>)

\* buildServerOptionsHandler: the OPTIONS function (its code embeds the
\* allowed origins handed to it, the first of which reads the distribution's
\* domain name), permission, integration and route.
buildServerOptionsHandler(origins) ==
    <<Resource("aws:lambda:Function", <<"OptionsLambda">>,
               {<<"IamForLambda">>, <<"CloudFrontDistribution">>}, {},
               [allowedOrigins |-> origins]),
      Resource("aws:lambda:Permission", <<"OptionsPermission">>,
               {<<"OptionsLambda">>, <<"API">>},
               {<<"API">>, <<"OptionsLambda">>}, NoAttrs),
      Resource("aws:apigatewayv2:Integration", <<"OptionsIntegration">>,
               {<<"API">>, <<"OptionsLambda">>}, {}, NoAttrs),
      Resource("aws:apigatewayv2:Route", <<"OptionsRoute">>,
               {<<"API">>, <<"OptionsIntegration">>},
               {<<"OptionsIntegration">>}, NoAttrs)>>

deployServer_noDependsOn(apiRoutes) ==
    <<Resource("aws:apigatewayv2:Stage", <<"ApiStage">>,
               {<<"API">>}, {}, NoAttrs)>>

\* deployServer: the stage, depending on the routes handed to it.
deployServer(apiRoutes) ==
    <<Resource("aws:apigatewayv2:Stage", <<"ApiStage">>,
               {<<"API">>}, apiRoutes, NoAttrs)>>

buildInvalidator_noDistribution ==
    <<Resource("pulumi-nodejs:dynamic:Resource", <<"StaticHash">>,
               {}, {}, NoAttrs),
      Resource("pulumi-nodejs:dynamic:Resource", <<"PrerenderedHash">>,
               {}, {}, NoAttrs),
      Resource("command:local:Command", <<"Invalidate">>,
               {<<"StaticHash">>, <<"PrerenderedHash">>}, {}, NoAttrs)>>

\* buildInvalidator: the two PathHash resources and the Invalidate command.
buildInvalidator ==
    <<Resource("pulumi-nodejs:dynamic:Resource", <<"StaticHash">>,
               {}, {}, NoAttrs),
      Resource("pulumi-nodejs:dynamic:Resource", <<"PrerenderedHash">>,
               {}, {}, NoAttrs),
      Resource("command:local:Command", <<"Invalidate">>,
               {<<"CloudFrontDistribution">>, <<"StaticHash">>,
                <<"PrerenderedHash">>},
               {<<"CloudFrontDistribution">>}, NoAttrs)>>

(***************************************************************************)
(* SpecGraph: the program registers the graph, the engine creates it       *)
(***************************************************************************)
\* Most route patterns in ROUTES.
MaxRoutes == 2

\* Values of FQDN: unset, a single label, a name with a parent domain.
FQDNs == {<<>>, <<"a">>, <<"b", ".", "a">>}

\* The route patterns of ROUTES, in order.
AllRoutes == <<<<"a", "/", "*">>, <<"b", "/", "*">>, <<"c", "/", "*">>>>

\* Relative paths of the files an asset root may hold.
FileNames == {<<"a.txt">>}

Configs ==
    [fqdn : FQDNs, routes : 0..MaxRoutes,
     static : SUBSET FileNames, prerendered : SUBSET FileNames]

\* The zone name the entrypoint derives from FQDN: the labels after the first,
\* joined.
domainName(FQDN) == join(Tail(split(FQDN)))

Program_certificateAlways(cfg) ==
    getLambdaRole
    \o buildServer
    \o validateCertificate(cfg.fqdn, domainName(cfg.fqdn))
    \o buildStatic(cfg.static, cfg.prerendered)
    \o buildCDN(validateCertificateArn, SubSeq(AllRoutes, 1, cfg.routes),
                cfg.fqdn)
    \o (IF cfg.fqdn # <<>> THEN createAliasRecord(cfg.fqdn) ELSE <<>>)
    \o buildServerOptionsHandler(allowedOrigins(cfg.fqdn))
    \o deployServer({<<"DefaultRoute">>, <<"OptionsRoute">>})
    \o buildInvalidator

\* The statements of the deployment program, in the order it executes them.
Program(cfg) ==
    getLambdaRole
    \o buildServer
    \o (IF cfg.fqdn # <<>>
        THEN validateCertificate(cfg.fqdn, domainName(cfg.fqdn)) ELSE <<>>)
    \o buildStatic(cfg.static, cfg.prerendered)
    \o buildCDN(validateCertificateArn, SubSeq(AllRoutes, 1, cfg.routes),
                cfg.fqdn)
    \o (IF cfg.fqdn # <<>> THEN createAliasRecord(cfg.fqdn) ELSE <<>>)
    \o buildServerOptionsHandler(allowedOrigins(cfg.fqdn))
    \o deployServer({<<"DefaultRoute">>, <<"OptionsRoute">>})
    \o buildInvalidator

\* The program of every configuration, as a table.
Programs == [cfg \in Configs |-> Program(cfg)] @@ <<>>

\* Positions of the statements of a configuration's program.
Positions(cfg) == 1..Len(Programs[cfg])

\* The registration a name resolves to: the first statement of the program
\* that registers a resource of that name (a later one of the same type is
\* rejected as a duplicate).
Registers(cfg, j, name) ==
    /\ Programs[cfg][j].kind = "resource"
    /\ Programs[cfg][j].name = name
    /\ \A k \in 1..(j - 1) :
          Programs[cfg][k].kind = "resource" => Programs[cfg][k].name # name

\* For every statement, the positions of the registrations it has edges to
\* (a table).
EdgeTargets ==
    [cfg \in Configs |->
        [i \in Positions(cfg) |->
            IF Programs[cfg][i].kind # "resource" THEN {}
            ELSE {j \in Positions(cfg) :
                    \E name \in Edges(Programs[cfg][i]) : Registers(cfg, j, name)}]
        @@ <<>>] @@ <<>>

\* For every statement, the positions of the statements with an edge to it.
EdgeSources ==
    [cfg \in Configs |->
        [i \in Positions(cfg) |-> {j \in Positions(cfg) : i \in EdgeTargets[cfg][j]}]
        @@ <<>>] @@ <<>>

Stmt(i) == Programs[config][i]

Targets(i) == EdgeTargets[config][i]

Dependents(i) == EdgeSources[config][i]

GraphIdle ==
    /\ config = [fqdn |-> <<>>, routes |-> 0, static |-> {}, prerendered |-> {}]
    /\ pc = 1
    /\ declared = {}
    /\ graphError = "none"
    /\ created = {}
    /\ deleted = {}
    /\ engine = "up"

InitGraph ==
    /\ config \in Configs
    /\ pc = 1
    /\ declared = {}
    /\ graphError = "none"
    /\ created = {}
    /\ deleted = {}
    /\ engine = "up"

\* The program has run to completion, or a throw has ended it.
ProgramEnded == pc > Len(Programs[config])

\* The program executes its next statement.  A throw ends the program.  A
\* resource is registered (declared holds the positions of the registered
\* statements), unless one of the same type and name is registered already:
\* the engine rejects the second registration (duplicate URN), which fails
\* the deployment, while the program goes on.
Declare ==
    /\ ~ProgramEnded
    /\ engine = "up"
    /\ IF Stmt(pc).kind = "throw"
       THEN /\ graphError' = Stmt(pc).error
            /\ pc' = Len(Programs[config]) + 1
            /\ UNCHANGED declared
       ELSE IF \E i \in declared :
                  /\ Stmt(i).type = Stmt(pc).type
                  /\ Stmt(i).name = Stmt(pc).name
       THEN /\ graphError' = "duplicate resource URN"
            /\ pc' = pc + 1
            /\ UNCHANGED declared
       ELSE /\ declared' = declared \cup {pc}
            /\ pc' = pc + 1
            /\ UNCHANGED graphError
    /\ UNCHANGED <<config, created, deleted, engine>>
    /\ UNCHANGED <<invVars, unitVars, crawlVars>>

\* The engine creates a registered resource once every resource it has an
\* edge to exists.  The program body is synchronous, so its registrations
\* reach the engine only after it has run to completion or thrown; after a
\* failure the engine may still complete any of the registered resources.
EngineCreate(i) ==
    /\ engine = "up"
    /\ ProgramEnded
    /\ i \in declared \ created
    /\ Targets(i) \subseteq created
    /\ created' = created \cup {i}
    /\ UNCHANGED <<config, pc, declared, graphError, deleted, engine>>
    /\ UNCHANGED <<invVars, unitVars, crawlVars>>

\* `pulumi destroy` on a fully deployed stack.
StartDestroy ==
    /\ engine = "up"
    /\ ProgramEnded
    /\ graphError = "none"
    /\ created = declared
    /\ engine' = "destroy"
    /\ UNCHANGED <<config, pc, declared, graphError, created, deleted>>
    /\ UNCHANGED <<invVars, unitVars, crawlVars>>

\* The engine deletes a resource once no remaining resource has an edge to it.
EngineDelete(i) ==
    /\ engine = "destroy"
    /\ i \in declared \ deleted
    /\ (Dependents(i) \cap declared) \subseteq deleted
    /\ deleted' = deleted \cup {i}
    /\ UNCHANGED <<config, pc, declared, graphError, created, engine>>
    /\ UNCHANGED <<invVars, unitVars, crawlVars>>

NextGraph ==
    \/ Declare
    \/ \E i \in declared : EngineCreate(i)
    \/ StartDestroy
    \/ \E i \in declared : EngineDelete(i)

(***************************************************************************)
(* SpecUnit: one call of a function of resources.ts                        *)
(***************************************************************************)
UnitIdle ==
    /\ unitIn = [FQDN |-> <<>>, domainName |-> <<>>]
    /\ unitOp = "none"
    /\ unitOut = <<>>

InitUnit ==
    /\ unitIn \in [FQDN : StringsUpTo(MaxDomainLen),
                   domainName : StringsUpTo(MaxZoneLen)]
    /\ unitOp = "none"
    /\ unitOut = <<>>

\* validateCertificate(FQDN, domainName) is called; unitOut holds the
\* statements it executed.
CallValidateCertificate ==
    /\ unitOp = "none"
    /\ unitOp' = "validateCertificate"
    /\ unitOut' = validateCertificate(unitIn.FQDN, unitIn.domainName)
    /\ UNCHANGED unitIn
    /\ UNCHANGED <<invVars, graphVars, crawlVars>>

\* createAliasRecord(FQDN, distribution) is called.
CallCreateAliasRecord ==
    /\ unitOp = "none"
    /\ unitOp' = "createAliasRecord"
    /\ unitOut' = createAliasRecord(unitIn.FQDN)
    /\ UNCHANGED unitIn
    /\ UNCHANGED <<invVars, graphVars, crawlVars>>

\* getDomainAndSubdomain(FQDN) is called; unitOut holds what it returned.
CallGetDomainAndSubdomain ==
    /\ unitOp = "none"
    /\ unitOp' = "getDomainAndSubdomain"
    /\ unitOut' = <<getDomainAndSubdomain(unitIn.FQDN)>>
    /\ UNCHANGED unitIn
    /\ UNCHANGED <<invVars, graphVars, crawlVars>>

NextUnit ==
    \/ CallValidateCertificate
    \/ CallCreateAliasRecord
    \/ CallGetDomainAndSubdomain

(***************************************************************************)
(* SpecCDN: one call of buildCDN                                           *)
(***************************************************************************)
RECURSIVE ListsUpTo(_, _)
ListsUpTo(S, n) ==
    IF n = 0 THEN {<<>>}
    ELSE LET shorter == ListsUpTo(S, n - 1) IN
         shorter \cup {Append(l, x) : l \in shorter, x \in S}

\* Route lists handed to buildCDN.
RouteLists == ListsUpTo(Range(AllRoutes), MaxRoutes)

\* Certificate ARNs handed to buildCDN: the entrypoint's initial '' and the
\* ARN output of a resource.
CertificateArns == {<<>>, <<"CertificateValidation">>}

\* A caller has a domain to serve (FQDN, empty for none), a certificate ARN
\* and a route list; envFQDN is the value process.env.FQDN has at the call.
InitCDN ==
    /\ unitIn \in [FQDN : FQDNs, envFQDN : FQDNs,
                   certificateArn : CertificateArns, routes : RouteLists]
    /\ unitOp = "none"
    /\ unitOut = <<>>

\* buildCDN(httpApi, bucket, certificateArn, routes) is called; unitOut holds
\* the resources it registered.
CallBuildCDN ==
    /\ unitOp = "none"
    /\ unitOp' = "buildCDN"
    /\ unitOut' = buildCDN(unitIn.certificateArn, unitIn.routes, unitIn.envFQDN)
    /\ UNCHANGED unitIn
    /\ UNCHANGED <<invVars, graphVars, crawlVars>>

NextCDN ==
    \/ CallBuildCDN

(***************************************************************************)
(* SpecRoutes: the entrypoint reads ROUTES and builds the distribution     *)
(***************************************************************************)
\* Longest value of ROUTES.
MaxRoutesLen == 4

\* Characters of ROUTES: pattern characters and the separator.
RouteChars == {"a", "/", ","}

RECURSIVE RouteStringsUpTo(_)
RouteStringsUpTo(n) ==
    IF n = 0 THEN {<<>>}
    ELSE LET shorter == RouteStringsUpTo(n - 1) IN
         shorter \cup {Append(w, c) : w \in shorter, c \in RouteChars}

\* process.env.ROUTES: unset, or a string (the empty string too).
EnvROUTES ==
    {Undefined} \cup {Defined(w) : w \in RouteStringsUpTo(MaxRoutesLen)}

\* str.split(','): the pieces between separators; a string without a
\* separator (the empty string too) is one piece.
RECURSIVE splitComma(_)
splitComma(str) ==
    IF \A i \in 1..Len(str) : str[i] # ","
    THEN <<str>>
    ELSE LET comma == CHOOSE i \in 1..Len(str) :
                          /\ str[i] = ","
                          /\ \A j \in 1..(i - 1) : str[j] # ","
         IN <<SubSeq(str, 1, comma - 1)>>
                \o splitComma(SubSeq(str, comma + 1, Len(str)))

\* routes = process.env.ROUTES?.split(',') || []: no routes when ROUTES is
\* unset, else the pieces of its value (an array is never falsy).
routesOf(ROUTES) ==
    IF ROUTES.defined THEN splitComma(ROUTES.items) ELSE <<>>

InitRoutes ==
    /\ unitIn \in [ROUTES : EnvROUTES]
    /\ unitOp = "none"
    /\ unitOut = <<>>

\* The entrypoint reads ROUTES and builds the distribution from the route
\* list (no custom domain); unitOut holds the resources registered.
ReadRoutes ==
    /\ unitOp = "none"
    /\ unitOp' = "routes"
    /\ unitOut' = buildCDN(<<>>, routesOf(unitIn.ROUTES), <<>>)
    /\ UNCHANGED unitIn
    /\ UNCHANGED <<invVars, graphVars, crawlVars>>

NextRoutes ==
    \/ ReadRoutes

(***************************************************************************)
(* SpecOptions: the generated OPTIONS handler answers a request            *)
(***************************************************************************)
\* Longest origin string, and most origins in the allowed list.
MaxOriginLen == 2

MaxOrigins == 2

\* Characters of an origin: a letter, and the characters a string literal
\* treats specially.
OriginChars == {"a", ",", "\"", "\\"}

RECURSIVE OriginsUpTo(_)
OriginsUpTo(n) ==
    IF n = 0 THEN {<<>>}
    ELSE LET shorter == OriginsUpTo(n - 1) IN
         shorter \cup {Append(w, c) : w \in shorter, c \in OriginChars}

\* JSON.stringify of a string: quoted, with '"' and '\' escaped.
RECURSIVE quote(_)
quote(str) ==
    IF str = <<>> THEN <<>>
    ELSE (IF Head(str) \in {"\"", "\\"} THEN <<"\\", Head(str)>>
          ELSE <<Head(str)>>) \o quote(Tail(str))

RECURSIVE stringifyItems(_)
stringifyItems(x) ==
    IF x = <<>> THEN <<>>
    ELSE <<"\"">> \o quote(Head(x)) \o <<"\"">>
            \o (IF Len(x) > 1 THEN <<",">> ELSE <<>>)
            \o stringifyItems(Tail(x))

\* JSON.stringify(x) of a list of strings: the text of an array literal.
stringify(x) == <<"[">> \o stringifyItems(x) \o <<"]">>

\* The string literal of the handler's source that starts after the opening
\* quote at position i: its value and the position after the closing quote.
RECURSIVE evalString(_, _, _)
evalString(text, i, acc) ==
    IF text[i] = "\"" THEN [value |-> acc, next |-> i + 1]
    ELSE IF text[i] = "\\" THEN evalString(text, i + 2, Append(acc, text[i + 1]))
    ELSE evalString(text, i + 1, Append(acc, text[i]))

RECURSIVE evalItems(_, _, _)
evalItems(text, i, acc) ==
    IF text[i] = "]" THEN acc
    ELSE IF text[i] = "," THEN evalItems(text, i + 1, acc)
    ELSE LET item == evalString(text, i + 1, <<>>) IN
         evalItems(text, item.next, Append(acc, item.value))

\* The value of `const allowedOrigins = ${JSON.stringify(x)};` in the
\* handler's source: the array literal, evaluated.
evalArrayLiteral(text) == evalItems(text, 2, <<>>)

handler_echoOrigin(allowed, event) ==
    [statusCode |-> 204,
     headers |-> [allowMethods |-> "*", allowHeaders |-> "*", maxAge |-> 86400,
                  connection |-> "keep-alive",
                  allowOrigin |-> event.origin]]

\* exports.handler: status 204 with the CORS headers; the allow-origin header
\* is set to the request's origin when the allowed list includes it.
handler(allowed, event) ==
    [statusCode |-> 204,
     headers |-> [allowMethods |-> "*", allowHeaders |-> "*", maxAge |-> 86400,
                  connection |-> "keep-alive",
                  allowOrigin |->
                      IF /\ event.origin.defined
                         /\ event.origin.items \in Range(allowed)
                      THEN Defined(event.origin.items)
                      ELSE Undefined]]

\* The function was built with a list of allowed origins, and a request
\* arrives with or without an origin header.
InitOptions ==
    /\ unitIn \in [allowedOrigins :
                      ListsUpTo(OriginsUpTo(MaxOriginLen), MaxOrigins),
                   event :
                      [origin : {Undefined}
                          \cup {Defined(o) : o \in OriginsUpTo(MaxOriginLen)}]]
    /\ unitOp = "none"
    /\ unitOut = <<>>

\* The handler, whose source embeds the stringified list, answers the request.
CallHandler ==
    /\ unitOp = "none"
    /\ unitOp' = "handler"
    /\ unitOut' = <<handler(evalArrayLiteral(stringify(unitIn.allowedOrigins)),
                            unitIn.event)>>
    /\ UNCHANGED unitIn
    /\ UNCHANGED <<invVars, graphVars, crawlVars>>

NextOptions ==
    \/ CallHandler

(***************************************************************************)
(* SpecDestroy: one invocation of the teardown script                      *)
(***************************************************************************)
\* Most lines of the project's .env file.
MaxEnvLines == 2

\* Lines of the .env file: KEY=VALUE.
EnvLines ==
    [key : {"iac", "stackName", "pulumiProjectPath"},
     value : {"cdk", "pulumi", "other"}]

\* The .env file in the working directory: missing, or its lines.
DotenvFiles ==
    {[exists |-> FALSE, lines |-> <<>>]}
        \cup {[exists |-> TRUE, lines |-> l] : l \in ListsUpTo(EnvLines, MaxEnvLines)}

\* The value the parsed file has for a key: that of the last line with the
\* key, or undefined.
RECURSIVE lookup(_, _)
lookup(lines, key) ==
    IF lines = <<>> THEN Undefined
    ELSE IF lines[Len(lines)].key = key
    THEN Defined(lines[Len(lines)].value)
    ELSE lookup(SubSeq(lines, 1, Len(lines) - 1), key)

\* env = config({ path: '.env' }).parsed: undefined when the file is missing,
\* else the object of its keys.
env(file) ==
    IF file.exists
    THEN [defined |-> TRUE,
          iac |-> lookup(file.lines, "iac"),
          stackName |-> lookup(file.lines, "stackName"),
          pulumiProjectPath |-> lookup(file.lines, "pulumiProjectPath")]
    ELSE [defined |-> FALSE, iac |-> Undefined, stackName |-> Undefined,
          pulumiProjectPath |-> Undefined]

\* spawnSync(command, args, { cwd }): the command that was run.
spawnSync(file, args, cwd) == [command |-> file, args |-> args, cwd |-> cwd]

destroyScript_elsePulumi(e) ==
    IF e.defined /\ e.iac.defined
    THEN IF e.iac.items = "cdk"
         THEN <<spawnSync("npx", <<"cdk", "destroy", "--app", "deploy/index.js",
                                   "*", "--force">>, Defined("__dirname"))>>
         ELSE <<spawnSync("pulumi", <<"destroy", "-f", "-s", e.stackName, "-y">>,
                          e.pulumiProjectPath)>>
    ELSE <<>>

\* The script: with an env that has the key iac, `npx cdk destroy` when iac
\* is "cdk", else `pulumi destroy` when it is "pulumi"; nothing otherwise.
\* The result is the list of commands it spawned.
destroyScript(e) ==
    IF e.defined /\ e.iac.defined
    THEN IF e.iac.items = "cdk"
         THEN <<spawnSync("npx", <<"cdk", "destroy", "--app", "deploy/index.js",
                                   "*", "--force">>, Defined("__dirname"))>>
         ELSE IF e.iac.items = "pulumi"
         THEN <<spawnSync("pulumi", <<"destroy", "-f", "-s", e.stackName, "-y">>,
                          e.pulumiProjectPath)>>
         ELSE <<>>
    ELSE <<>>

InitDestroy ==
    /\ unitIn \in [dotenv : DotenvFiles]
    /\ unitOp = "none"
    /\ unitOut = <<>>

\* The script is invoked; unitOut holds the commands it spawned.
RunDestroy ==
    /\ unitOp = "none"
    /\ unitOp' = "destroy"
    /\ unitOut' = destroyScript(env(unitIn.dotenv))
    /\ UNCHANGED unitIn
    /\ UNCHANGED <<invVars, graphVars, crawlVars>>

NextDestroy ==
    \/ RunDestroy

(***************************************************************************)
(* SpecCrawl: uploadStatic crawls a sync root, then the objects are        *)
(* uploaded                                                                *)
(*                                                                         *)
(* The disk holds the root directory and one further directory ("child").  *)
(* An entry of a listing has a name and a kind: a regular file, a          *)
(* directory (the child), a fifo, or a symbolic link to the root, to the   *)
(* child, to a regular file or to nothing.                                 *)
(***************************************************************************)
\* Most entries of the root directory / of the child directory.
MaxEntries == 2

MaxChildEntries == 1

\* Symbolic links the system follows while resolving one path before it
\* gives up with ELOOP.
MaxLinks == 2

EntryNames == {"a", "r"}

RootKinds ==
    {"file", "dir", "fifo", "linkToRoot", "linkToChild", "linkToFile",
     "linkBroken"}

ChildKinds == {"file", "linkToRoot"}

LinkKinds == {"linkToRoot", "linkToChild", "linkToFile", "linkBroken"}

\* Directory listings: entries of the given kinds with distinct names, in
\* any listing order.
Listings(kinds, n) ==
    {l \in ListsUpTo([name : EntryNames, kind : kinds], n) :
        \A i, j \in 1..Len(l) : i # j => l[i].name # l[j].name}

Readable(entries) == [error |-> "none", entries |-> entries]

Unreadable(error) == [error |-> error, entries |-> <<>>]

Disks ==
    {[root |-> Readable(l), child |-> c] :
        l \in Listings(RootKinds, MaxEntries),
        c \in {Readable(m) : m \in Listings(ChildKinds, MaxChildEntries)}
                \cup {Unreadable("EACCES")}}
    \cup {[root |-> Unreadable("ENOENT"), child |-> Readable(<<>>)]}

\* The root path handed to uploadStatic, without and with a trailing '/'.
RootPaths == {<<"r">>, <<"r", "/">>}

NoCrawl ==
    [status |-> "idle", stack |-> <<>>, visited |-> <<>>, objects |-> <<>>,
     error |-> "none"]

EmptyBucket == [content |-> {}, done |-> {}]

CrawlIdle ==
    /\ fsIn = [path |-> <<"r">>,
               disk |-> [root |-> Unreadable("ENOENT"),
                         child |-> Readable(<<>>)]]
    /\ crawl = NoCrawl
    /\ s3 = EmptyBucket

InitCrawl ==
    /\ fsIn \in [path : RootPaths, disk : Disks]
    /\ crawl = NoCrawl
    /\ s3 = EmptyBucket

\* fs.readdirSync(dir): the listing, or the error it throws.
readdirSync(dir) == IF dir = "root" THEN fsIn.disk.root ELSE fsIn.disk.child

\* fs.statSync(filePath) of an entry reached through `links` symbolic links:
\* it follows a link to what it points at, and throws for a link to nothing
\* and for a path with too many links.
statSync(entry, links) ==
    LET followed == links + (IF entry.kind \in LinkKinds THEN 1 ELSE 0) IN
    IF entry.kind = "linkBroken"
    THEN [error |-> "ENOENT", isDirectory |-> FALSE, isFile |-> FALSE,
          dir |-> "none", links |-> followed]
    ELSE IF followed > MaxLinks
    THEN [error |-> "ELOOP", isDirectory |-> FALSE, isFile |-> FALSE,
          dir |-> "none", links |-> followed]
    ELSE [error |-> "none",
          isDirectory |-> entry.kind \in {"dir", "linkToRoot", "linkToChild"},
          isFile |-> entry.kind \in {"file", "linkToFile"},
          dir |-> IF entry.kind = "linkToRoot" THEN "root" ELSE "child",
          links |-> followed]

\* The frame of the innermost call of crawlDirectory, its next entry and that
\* entry's path `${dir}/${file}`.
Top == crawl.stack[Len(crawl.stack)]

NextEntry == Head(Top.todo)

NextPath == Top.path \o <<"/", NextEntry.name>>

NextStat == statSync(NextEntry, Top.links)

\* The loop of the innermost call moves on to its next entry.
Advance(stack) == [stack EXCEPT ![Len(stack)].todo = Tail(@)]

Visited(c, path, ok) == Append(c.visited, [path |-> path, ok |-> ok])

Throw_skipEntry(c, path, error) ==
    [c EXCEPT !.visited = Visited(c, path, FALSE),
              !.status = IF c.stack = <<>> THEN "done" ELSE c.status,
              !.stack = IF c.stack = <<>> THEN <<>> ELSE Advance(c.stack)]

\* readdirSync or statSync throws: nothing in crawlDirectory or uploadStatic
\* catches, so every call of crawlDirectory ends and the caller gets the error.
ThrowFsError(c, path, error) ==
    [c EXCEPT !.visited = Visited(c, path, FALSE),
              !.status = "failed",
              !.error = error,
              !.stack = <<>>]

\* crawlDirectory(path, f): the listing of the root is read.
ReadRoot ==
    /\ crawl.status = "idle"
    /\ readdirSync("root").error = "none"
    /\ crawl' = [crawl EXCEPT
                    !.status = "running",
                    !.visited = Visited(crawl, fsIn.path, TRUE),
                    !.stack = <<[dir |-> "root", path |-> fsIn.path,
                                 todo |-> readdirSync("root").entries,
                                 links |-> 0]>>]
    /\ UNCHANGED <<fsIn, s3>>
    /\ UNCHANGED <<invVars, graphVars, unitVars>>

ReadRootFails ==
    /\ crawl.status = "idle"
    /\ readdirSync("root").error # "none"
    /\ crawl' = ThrowFsError(crawl, fsIn.path, readdirSync("root").error)
    /\ UNCHANGED <<fsIn, s3>>
    /\ UNCHANGED <<invVars, graphVars, unitVars>>

\* statSync of the next entry throws.
StatFails ==
    /\ crawl.status = "running"
    /\ Top.todo # <<>>
    /\ NextStat.error # "none"
    /\ crawl' = ThrowFsError(crawl, NextPath, NextStat.error)
    /\ UNCHANGED <<fsIn, s3>>
    /\ UNCHANGED <<invVars, graphVars, unitVars>>

\* The next entry is a directory for statSync: crawlDirectory(filePath, f).
EnterDirectory ==
    /\ crawl.status = "running"
    /\ Top.todo # <<>>
    /\ NextStat.error = "none"
    /\ NextStat.isDirectory
    /\ readdirSync(NextStat.dir).error = "none"
    /\ crawl' = [crawl EXCEPT
                    !.visited = Visited(crawl, NextPath, TRUE),
                    !.stack = Append(Advance(crawl.stack),
                                     [dir |-> NextStat.dir, path |-> NextPath,
                                      todo |-> readdirSync(NextStat.dir).entries,
                                      links |-> NextStat.links])]
    /\ UNCHANGED <<fsIn, s3>>
    /\ UNCHANGED <<invVars, graphVars, unitVars>>

EnterDirectoryFails ==
    /\ crawl.status = "running"
    /\ Top.todo # <<>>
    /\ NextStat.error = "none"
    /\ NextStat.isDirectory
    /\ readdirSync(NextStat.dir).error # "none"
    /\ crawl' = ThrowFsError(crawl, NextPath, readdirSync(NextStat.dir).error)
    /\ UNCHANGED <<fsIn, s3>>
    /\ UNCHANGED <<invVars, graphVars, unitVars>>

\* The next entry is a file for statSync: f(filePath) registers its object.
VisitFile ==
    /\ crawl.status = "running"
    /\ Top.todo # <<>>
    /\ NextStat.error = "none"
    /\ NextStat.isFile
    /\ crawl' = [crawl EXCEPT
                    !.visited = Visited(crawl, NextPath, TRUE),
                    !.objects = Append(@, BucketObject(NextPath, fsIn.path)),
                    !.stack = Advance(crawl.stack)]
    /\ UNCHANGED <<fsIn, s3>>
    /\ UNCHANGED <<invVars, graphVars, unitVars>>

\* The next entry is neither: the loop moves on.
SkipEntry ==
    /\ crawl.status = "running"
    /\ Top.todo # <<>>
    /\ NextStat.error = "none"
    /\ ~NextStat.isDirectory
    /\ ~NextStat.isFile
    /\ crawl' = [crawl EXCEPT
                    !.visited = Visited(crawl, NextPath, TRUE),
                    !.stack = Advance(crawl.stack)]
    /\ UNCHANGED <<fsIn, s3>>
    /\ UNCHANGED <<invVars, graphVars, unitVars>>

\* The loop of the innermost call is over: the call returns.
Return ==
    /\ crawl.status = "running"
    /\ Top.todo = <<>>
    /\ crawl' = [crawl EXCEPT
                    !.status = IF Len(crawl.stack) = 1 THEN "done" ELSE "running",
                    !.stack = SubSeq(crawl.stack, 1, Len(crawl.stack) - 1)]
    /\ UNCHANGED <<fsIn, s3>>
    /\ UNCHANGED <<invVars, graphVars, unitVars>>

PutObject_only(held, key, source) == {<<key, source>>}

\* Creating a bucket object puts its source at its key, in place of what the
\* key held.
PutObject(held, key, source) ==
    {p \in held : p[1] # key} \cup {<<key, source>>}

\* The engine creates (or, on a retry or a later run, creates again) a
\* registered bucket object; the objects have no edges to one another, so it
\* takes them in any order.
Upload(i) ==
    /\ crawl.status \in {"done", "failed"}
    /\ s3' = [content |-> PutObject(s3.content, crawl.objects[i].attrs.key,
                                    crawl.objects[i].attrs.source),
              done |-> s3.done \cup {i}]
    /\ UNCHANGED <<fsIn, crawl>>
    /\ UNCHANGED <<invVars, graphVars, unitVars>>

NextCrawl ==
    \/ ReadRoot
    \/ ReadRootFails
    \/ StatFails
    \/ EnterDirectory
    \/ EnterDirectoryFails
    \/ VisitFile
    \/ SkipEntry
    \/ Return
    \/ \E i \in 1..Len(crawl.objects) : Upload(i)

(***************************************************************************)
(* SpecInvalidate: runs of the deployment                                  *)
(***************************************************************************)
Interpreters == {"sh", "cmd"}

InvIdle ==
    /\ interpreter = "sh"
    /\ content = [r \in Roots |-> EmptyTree]
    /\ pathHash = [r \in Roots |-> NoHash]
    /\ command = NoCommand
    /\ distribution = FALSE
    /\ phase = "idle"
    /\ decision = [r \in Roots |-> "pending"]
    /\ stepDone = {}
    /\ requests = <<>>
    /\ pathHashAtStart = [r \in Roots |-> NoHash]
    /\ commandAtStart = NoCommand
    /\ contentAtStart = [r \in Roots |-> EmptyTree]
    /\ prevRun = [pending |-> FALSE, owed |-> FALSE, content |-> [r \in Roots |-> EmptyTree]]

\* A fresh stack: nothing in the state, any trees on disk, either host.
InitInvalidate ==
    /\ interpreter \in Interpreters
    /\ content \in [Roots -> Trees]
    /\ pathHash = [r \in Roots |-> NoHash]
    /\ command = NoCommand
    /\ distribution = FALSE
    /\ phase = "idle"
    /\ decision = [r \in Roots |-> "pending"]
    /\ stepDone = {}
    /\ requests = <<>>
    /\ pathHashAtStart = pathHash
    /\ commandAtStart = command
    /\ contentAtStart = content
    /\ prevRun = [pending |-> FALSE, owed |-> FALSE, content |-> content]

\* The build has (re)written the asset directories, leaving trees `disk` in
\* them (the same trees when nothing changed), and `pulumi up` starts: the
\* engine reads the stack state.
StartRun(disk) ==
    /\ phase # "running"
    /\ phase' = "running"
    /\ content' = disk
    /\ decision' = [r \in Roots |-> "pending"]
    /\ stepDone' = {}
    /\ requests' = <<>>
    /\ pathHashAtStart' = pathHash
    /\ commandAtStart' = command
    /\ contentAtStart' = disk
    /\ prevRun' =
          [pending |-> /\ phase = "failed"
                       /\ requests = <<>>
                       /\ \E r \in Roots : pathHashAtStart[r] # hashElement(r),
           owed |-> /\ phase = "failed"
                    /\ requests = <<>>
                    /\ \/ ~command.present
                       \/ \E r \in Roots : command.triggers[r] # hashElement(r),
           content |-> content]
    /\ UNCHANGED <<graphVars, unitVars, crawlVars>>
    /\ UNCHANGED <<interpreter, pathHash, command, distribution>>

\* The engine processes StaticHash or PrerenderedHash (they depend on nothing)
\* and checkpoints the new output in the stack state.
PathHashStep(r) ==
    /\ phase = "running"
    /\ decision[r] = "pending"
    /\ LET plan == PathHashPlan(r) IN
         /\ decision' = [decision EXCEPT ![r] = plan]
         /\ pathHash' =
               [pathHash EXCEPT ![r] =
                   CASE plan = "create" -> create(r).outs.hash
                     [] plan = "update" -> update(r).outs.hash
                     [] OTHER -> @]
    /\ UNCHANGED <<graphVars, unitVars, crawlVars>>
    /\ UNCHANGED <<interpreter, content, command, distribution, phase,
                   stepDone, requests, pathHashAtStart, commandAtStart,
                   contentAtStart, prevRun>>

\* The engine creates (or keeps) the CDN distribution.
DistributionStep ==
    /\ phase = "running"
    /\ "CloudFrontDistribution" \notin stepDone
    /\ distribution' = TRUE
    /\ stepDone' = stepDone \cup {"CloudFrontDistribution"}
    /\ UNCHANGED <<graphVars, unitVars, crawlVars>>
    /\ UNCHANGED <<interpreter, content, pathHash, command, phase, decision,
                   requests, pathHashAtStart, commandAtStart, contentAtStart,
                   prevRun>>

\* The resources whose outputs the command reads, or that it names in
\* dependsOn, were processed by this run.
InvalidateReady_noTriggers == "CloudFrontDistribution" \in stepDone

InvalidateReady ==
    /\ Decided
    /\ "CloudFrontDistribution" \in stepDone

\* The engine processes the Invalidate command: `create` runs when the command
\* is new or one of its triggers changed, and the command with its triggers is
\* checkpointed once `create` has succeeded.
InvalidateStep ==
    /\ phase = "running"
    /\ "Invalidate" \notin stepDone
    /\ InvalidateReady
    /\ IF CommandPlan(command, triggers) \in {"create", "replace"}
       THEN /\ requests' = Append(requests, invalidationCommand(interpreter))
            /\ command' = [present |-> TRUE, triggers |-> triggers]
       ELSE UNCHANGED <<requests, command>>
    /\ stepDone' = stepDone \cup {"Invalidate"}
    /\ UNCHANGED <<graphVars, unitVars, crawlVars>>
    /\ UNCHANGED <<interpreter, content, pathHash, distribution, phase,
                   decision, pathHashAtStart, commandAtStart, contentAtStart,
                   prevRun>>

\* A step fails (provider error, `create` exits non-zero) or the run is
\* aborted: the step in progress checkpoints nothing and the run ends.
FailRun ==
    /\ phase = "running"
    /\ phase' = "failed"
    /\ UNCHANGED <<graphVars, unitVars, crawlVars>>
    /\ UNCHANGED <<interpreter, content, pathHash, command, distribution,
                   decision, stepDone, requests, pathHashAtStart,
                   commandAtStart, contentAtStart, prevRun>>

\* Every resource was processed: the run succeeds.
FinishRun ==
    /\ phase = "running"
    /\ Decided
    /\ stepDone = {"CloudFrontDistribution", "Invalidate"}
    /\ phase' = "done"
    /\ UNCHANGED <<graphVars, unitVars, crawlVars>>
    /\ UNCHANGED <<interpreter, content, pathHash, command, distribution,
                   decision, stepDone, requests, pathHashAtStart,
                   commandAtStart, contentAtStart, prevRun>>

NextInvalidate ==
    \/ \E disk \in [Roots -> Trees] : StartRun(disk)
    \/ \E r \in Roots : PathHashStep(r)
    \/ DistributionStep
    \/ InvalidateStep
    \/ FailRun
    \/ FinishRun

InitInv == InitInvalidate /\ GraphIdle /\ UnitIdle /\ CrawlIdle

SpecInvalidate == InitInv /\ [][NextInvalidate]_vars

InitG == InvIdle /\ InitGraph /\ UnitIdle /\ CrawlIdle

SpecGraph == InitG /\ [][NextGraph]_vars

InitU == InvIdle /\ GraphIdle /\ InitUnit /\ CrawlIdle

SpecUnit == InitU /\ [][NextUnit]_vars

InitC == InvIdle /\ GraphIdle /\ InitCDN /\ CrawlIdle

SpecCDN == InitC /\ [][NextCDN]_vars

InitR == InvIdle /\ GraphIdle /\ InitRoutes /\ CrawlIdle

SpecRoutes == InitR /\ [][NextRoutes]_vars

InitO == InvIdle /\ GraphIdle /\ InitOptions /\ CrawlIdle

SpecOptions == InitO /\ [][NextOptions]_vars

InitD == InvIdle /\ GraphIdle /\ InitDestroy /\ CrawlIdle

SpecDestroy == InitD /\ [][NextDestroy]_vars

InitCr == InvIdle /\ GraphIdle /\ UnitIdle /\ InitCrawl

SpecCrawl == InitCr /\ [][NextCrawl]_vars

(***************************************************************************)
(* Claims about the invalidation trigger (SpecInvalidate)                  *)
(***************************************************************************)
\* The run found no stored fingerprint for either asset root.
FirstRun == \A r \in Roots : pathHashAtStart[r] = NoHash

\* The run found a stored fingerprint for both asset roots.
HasPredecessors == \A r \in Roots : pathHashAtStart[r] # NoHash

\* A fingerprint on disk differs from the predecessor the run found.
DiffersFromStored == \E r \in Roots : hashElement(r) # pathHashAtStart[r]

\* No invalidation was recorded yet, or a fingerprint on disk differs from the
\* one recorded with the last issued invalidation (the command's triggers).
DiffersFromInvalidated ==
    \/ ~commandAtStart.present
    \/ \E r \in Roots : hashElement(r) # commandAtStart.triggers[r]

\* The run found the command recorded with the stored fingerprints.
CommandInStep ==
    commandAtStart.present /\ commandAtStart.triggers = pathHashAtStart

\* C1: on the first-ever run (no fingerprint stored for either root) the
\* trigger decides Changed as soon as both roots were compared, and once the
\* Invalidate step was processed a request has been issued, whatever the trees
\* in the two directories.
C1_FirstRunInvalidates ==
    FirstRun =>
        /\ Decided => Decision = "Changed"
        /\ "Invalidate" \in stepDone => Len(requests) >= 1

\* C1 witness: a first run over two empty directories completed and issued
\* its request.
C1_Witness ==
    /\ phase = "done"
    /\ FirstRun
    /\ \A r \in Roots : content[r] = EmptyTree
    /\ Len(requests) = 1

C3_Original ==
    phase = "done" /\ Decision = "Changed" =>
        /\ Len(requests) = 1
        /\ requests[1].paths = {Wildcard}
        /\ \A r \in Roots : pathHash[r] = hashElement(r)

IsCreated(name) == \E i \in created : Stmt(i).name = name

\* The registered resource of this logical name has an edge to a registered
\* resource of each of the given names.
HasEdgesTo(name, targets) ==
    \A i \in declared : Stmt(i).name = name =>
        \A t \in targets :
            /\ t \in Edges(Stmt(i))
            /\ \E j \in Targets(i) : j \in declared /\ Stmt(j).name = t

\* C7: at every moment of a deployment, every registered resource was
\* registered after each resource whose output it reads, and each such read is
\* one of its edges (the permission has edges to the function and the API,
\* the default route to the integration); every edge leads to an earlier
\* statement, so the relation is acyclic.  Hence what the engine has created
\* is closed under edges, what it has deleted is closed under dependents, and
\* neither creation nor teardown can get stuck before it is complete.
C7_EdgesPrecedeAndSchedule ==
    /\ \A i \in declared :
          /\ Stmt(i).inputs \subseteq Edges(Stmt(i))
          /\ \A name \in Edges(Stmt(i)) :
                \E j \in declared : j < i /\ Stmt(j).name = name
          /\ Targets(i) \subseteq {j \in declared : j < i}
    /\ HasEdgesTo(<<"ServerPermission">>,
                  {<<"LambdaServerFunctionHandler">>, <<"API">>})
    /\ HasEdgesTo(<<"DefaultRoute">>, {<<"ServerIntegration">>})
    /\ \A i \in created : Targets(i) \subseteq created
    /\ \A i \in deleted : (Dependents(i) \cap declared) \subseteq deleted
    /\ (ProgramEnded /\ engine = "up" /\ created # declared) =>
          \E i \in declared \ created : Targets(i) \subseteq created
    /\ (engine = "destroy" /\ deleted # declared) =>
          \E i \in declared \ deleted :
              (Dependents(i) \cap declared) \subseteq deleted

\* A deployment with a custom domain and a route was created in full and then
\* torn down in full.
C7_Witness ==
    /\ config.fqdn = <<"b", ".", "a">>
    /\ config.routes = 1
    /\ graphError = "none"
    /\ engine = "destroy"
    /\ IsCreated(<<"ServerPermission">>)
    /\ IsCreated(<<"DefaultRoute">>)
    /\ deleted = declared

\* C8: with a custom domain, the validation record is created only after the
\* certificate, the certificate validation only after the validation record,
\* and the distribution, whose viewer certificate is the ARN output of the
\* certificate validation, only after the certificate validation.
C8_ValidatedCertificateFirst ==
    config.fqdn # <<>> =>
        /\ IsCreated(config.fqdn \o <<".validation">>) =>
              IsCreated(<<"Certificate">>)
        /\ IsCreated(<<"CertificateValidation">>) =>
              IsCreated(config.fqdn \o <<".validation">>)
        /\ IsCreated(<<"CloudFrontDistribution">>) =>
              IsCreated(<<"CertificateValidation">>)
        /\ \A i \in declared :
              Stmt(i).name = <<"CloudFrontDistribution">> =>
                  Stmt(i).attrs.acmCertificateArn = <<"CertificateValidation">>

\* With a custom domain the distribution has been created, after the
\* certificate, its validation record and its validation.
C8_Witness ==
    /\ config.fqdn = <<"b", ".", "a">>
    /\ IsCreated(<<"Certificate">>)
    /\ IsCreated(<<"b", ".", "a", ".validation">>)
    /\ IsCreated(<<"CertificateValidation">>)
    /\ IsCreated(<<"CloudFrontDistribution">>)

\* C22: the stage is registered with an edge to the default route and to the
\* OPTIONS route, and the engine never creates it before both exist.
C22_StageAfterRoutes ==
    /\ HasEdgesTo(<<"ApiStage">>, {<<"DefaultRoute">>, <<"OptionsRoute">>})
    /\ IsCreated(<<"ApiStage">>) =>
          /\ IsCreated(<<"DefaultRoute">>)
          /\ IsCreated(<<"OptionsRoute">>)

\* The stage has been created, after both routes.
C22_Witness ==
    /\ IsCreated(<<"ApiStage">>)
    /\ IsCreated(<<"DefaultRoute">>)
    /\ IsCreated(<<"OptionsRoute">>)
    /\ engine = "up"

\* The statements the program has executed so far.
Executed == {i \in 1..(pc - 1) : i <= Len(Programs[config])}

\* No two resource statements executed so far have the same type and name.
NamesUnique(stmts) ==
    \A i, j \in stmts :
        (/\ i # j
         /\ Stmt(i).kind = "resource"
         /\ Stmt(j).kind = "resource"
         /\ Stmt(i).type = Stmt(j).type) => Stmt(i).name # Stmt(j).name

\* C23 as stated: the resources a deployment registers have logical names
\* that are unique among the resources of their type, for every route list
\* (taken here over deployments whose two asset roots share no relative
\* path), and the engine rejects no registration as a duplicate.
C23_Original ==
    (config.static \cap config.prerendered = {}) =>
        /\ NamesUnique(Executed)
        /\ graphError # "duplicate resource URN"

\* A deployment with two routes and no assets has run its program to the
\* end, has registered two origin request policies named RouteRequestPolicy
\* and was rejected for the duplicate.
C23_Witness ==
    /\ config.routes = 2
    /\ config.static = {}
    /\ config.prerendered = {}
    /\ ProgramEnded
    /\ graphError = "duplicate resource URN"
    /\ Cardinality({i \in Executed :
                      /\ Stmt(i).kind = "resource"
                      /\ Stmt(i).name = <<"RouteRequestPolicy">>}) = 2

\* C24: the Invalidate command is registered with an edge to the
\* distribution, and in every order in which the engine creates the
\* registered resources the command is run only after the distribution
\* exists.
C24_InvalidateAfterDistribution ==
    /\ HasEdgesTo(<<"Invalidate">>, {<<"CloudFrontDistribution">>})
    /\ IsCreated(<<"Invalidate">>) => IsCreated(<<"CloudFrontDistribution">>)

\* The command has run, after the distribution and both path hashes.
C24_Witness ==
    /\ IsCreated(<<"Invalidate">>)
    /\ IsCreated(<<"CloudFrontDistribution">>)
    /\ IsCreated(<<"StaticHash">>)
    /\ IsCreated(<<"PrerenderedHash">>)
    /\ engine = "up"

\* The allowed origins in the code of the OPTIONS function a deployment
\* registered.
OptionsLambdas ==
    {i \in declared : Stmt(i).name = <<"OptionsLambda">>}

\* C25: the list of origins the OPTIONS handler allows contains the origin of
\* the distribution's domain; it contains the origin of the FQDN exactly when
\* a custom domain is configured, and then has these two elements; without an
\* FQDN it has exactly one element.
C25_AllowedOrigins ==
    \A i \in OptionsLambdas :
        LET origins == Stmt(i).attrs.allowedOrigins IN
        /\ https(distributionDomainName) \in Range(origins)
        /\ (config.fqdn # <<>>) <=> (https(config.fqdn) \in Range(origins))
        /\ config.fqdn # <<>> => Len(origins) = 2
        /\ config.fqdn = <<>> => Len(origins) = 1

\* A deployment for the domain "b.a" registered the OPTIONS function with the
\* distribution's origin and https://b.a.
C25_Witness ==
    /\ config.fqdn = <<"b", ".", "a">>
    /\ \E i \in OptionsLambdas :
          Stmt(i).attrs.allowedOrigins
              = <<<<"https://", "CloudFrontDistribution.domainName">>,
                  <<"https://", "b", ".", "a">>>>

\* The bucket objects the program has registered or tried to register.
BucketObjects ==
    {i \in Executed : /\ Stmt(i).kind = "resource"
                      /\ Stmt(i).type = "aws:s3:BucketObject"}

\* C26 as stated: over the static and the prerendered root of a deployment,
\* no two bucket objects the program declares have the same key or the same
\* logical name, also when both roots hold a file at the same relative path.
C26_Original ==
    \A i, j \in BucketObjects :
        i # j => /\ Stmt(i).name # Stmt(j).name
                 /\ Stmt(i).attrs.key # Stmt(j).attrs.key

\* Both roots hold a.txt: the program declared two objects named a.txt with
\* key a.txt, from different files, and the second was rejected.
C26_Witness ==
    /\ config.static = {<<"a.txt">>}
    /\ config.prerendered = {<<"a.txt">>}
    /\ config.routes = 0
    /\ graphError = "duplicate resource URN"
    /\ \E i, j \in BucketObjects :
          /\ i # j
          /\ Stmt(i).attrs.key = Stmt(j).attrs.key
          /\ Stmt(i).attrs.source # Stmt(j).attrs.source

(***************************************************************************)
(* Claims about single calls (SpecUnit)                                    *)
(***************************************************************************)
\* d is a suffix of f.
IsSuffix(d, f) ==
    /\ Len(d) <= Len(f)
    /\ SubSeq(f, Len(f) - Len(d) + 1, Len(f)) = d

\* f is d itself or a subdomain of d.
IsUnder(f, d) == f = d \/ IsSuffix(<<".">> \o d, f)

\* C9: a call of validateCertificate with an FQDN that is neither the zone
\* name nor a subdomain of it fails with "FQDN must contain domainName",
\* registering nothing.
C9_Original ==
    (unitOp = "validateCertificate" /\ ~IsUnder(unitIn.FQDN, unitIn.domainName))
        => unitOut = <<Throw("FQDN must contain domainName")>>

\* validateCertificate was called with FQDN "a" and zone "b", and registered
\* its four resources.
C9_Witness ==
    /\ unitOp = "validateCertificate"
    /\ unitIn = [FQDN |-> <<"a">>, domainName |-> <<"b">>]
    /\ Len(unitOut) = 4
    /\ \A i \in 1..Len(unitOut) : unitOut[i].kind = "resource"

\* C10: a call of createAliasRecord with a target domain that splits on '.'
\* into fewer than 2 labels ends with the splitter's error, and registers no
\* record.
C10_FewLabelsThrow ==
    (unitOp = "createAliasRecord" /\ Len(split(unitIn.FQDN)) < 2) =>
        /\ unitOut = <<Throw("No TLD found")>>
        /\ \A i \in 1..Len(unitOut) : unitOut[i].kind # "resource"

\* createAliasRecord was called with the single label "a" and threw.
C10_Witness ==
    /\ unitOp = "createAliasRecord"
    /\ unitIn.FQDN = <<"a">>
    /\ unitOut = <<Throw("No TLD found")>>

\* The text of a domain string after its first label and the separator that
\* follows it.
AfterFirstLabel(domain) ==
    LET dot == CHOOSE i \in 1..Len(domain) :
                   /\ domain[i] = "."
                   /\ \A j \in 1..(i - 1) : domain[j] # "."
    IN SubSeq(domain, dot + 1, Len(domain))

\* The text of a domain string before its first separator.
FirstLabel(domain) ==
    LET dot == CHOOSE i \in 1..Len(domain) :
                   /\ domain[i] = "."
                   /\ \A j \in 1..(i - 1) : domain[j] # "."
    IN SubSeq(domain, 1, dot - 1)

\* Number of separators in a domain string.
Dots(domain) == Cardinality({i \in 1..Len(domain) : domain[i] = "."})

\* C11: for a domain with exactly 2 labels the splitter returns an empty
\* subdomain and the domain itself; for one with more than 2 labels it returns
\* the first label and the rest of the domain followed by a '.'.
C11_SplitterResult ==
    (unitOp = "getDomainAndSubdomain" /\ Dots(unitIn.FQDN) >= 1) =>
        /\ ~unitOut[1].threw
        /\ Dots(unitIn.FQDN) = 1 =>
              /\ unitOut[1].subdomain = <<>>
              /\ unitOut[1].parentDomain = unitIn.FQDN
        /\ Dots(unitIn.FQDN) > 1 =>
              /\ unitOut[1].subdomain = FirstLabel(unitIn.FQDN)
              /\ unitOut[1].parentDomain
                    = AfterFirstLabel(unitIn.FQDN) \o <<".">>

\* The splitter was called on "a.b.a" and returned "a" and "b.a.".
C11_Witness ==
    /\ unitOp = "getDomainAndSubdomain"
    /\ unitIn.FQDN = <<"a", ".", "b", ".", "a">>
    /\ unitOut[1].subdomain = <<"a">>
    /\ unitOut[1].parentDomain = <<"b", ".", "a", ".">>

\* subdomain + "." + parentDomain, or parentDomain alone when the subdomain is
\* empty.
Rejoin(r) ==
    IF r.subdomain = <<>> THEN r.parentDomain
    ELSE r.subdomain \o <<".">> \o r.parentDomain

\* C12 as stated: whenever the splitter succeeds, rejoining its result gives
\* back the domain it was called on.
C12_Original ==
    (unitOp = "getDomainAndSubdomain" /\ ~unitOut[1].threw) =>
        Rejoin(unitOut[1]) = unitIn.FQDN

\* C12: whenever the splitter succeeds, rejoining its result gives back the
\* domain for 2 labels; for more than 2 labels it gives the domain followed by
\* a '.', and, when the first label is empty, without its leading '.'.
C12_RejoinUpToTrailingDot ==
    (unitOp = "getDomainAndSubdomain" /\ ~unitOut[1].threw) =>
        /\ Dots(unitIn.FQDN) = 1 => Rejoin(unitOut[1]) = unitIn.FQDN
        /\ (Dots(unitIn.FQDN) > 1 /\ unitIn.FQDN[1] # ".") =>
              Rejoin(unitOut[1]) = unitIn.FQDN \o <<".">>
        /\ (Dots(unitIn.FQDN) > 1 /\ unitIn.FQDN[1] = ".") =>
              Rejoin(unitOut[1]) = Tail(unitIn.FQDN) \o <<".">>

\* The splitter was called on "b.a.b"; rejoining gives "b.a.b.".
C12_Witness ==
    /\ unitOp = "getDomainAndSubdomain"
    /\ unitIn.FQDN = <<"b", ".", "a", ".", "b">>
    /\ Rejoin(unitOut[1]) = <<"b", ".", "a", ".", "b", ".">>

\* A domain string without its trailing '.', if it has one.
WithoutTrailingDot(d) ==
    IF d # <<>> /\ d[Len(d)] = "." THEN SubSeq(d, 1, Len(d) - 1) ELSE d

\* No label of the domain string is empty.
NoEmptyLabel(d) == \A i \in 1..Len(split(d)) : split(d)[i] # <<>>

\* C27 as stated: for an FQDN of at least 2 (non-empty) labels, the zone name
\* the entrypoint derives for the certificate validation record is, up to a
\* trailing '.', the parent domain the splitter computes for the alias
\* record.
C27_Original ==
    (/\ unitOp = "getDomainAndSubdomain"
     /\ Len(split(unitIn.FQDN)) >= 2
     /\ NoEmptyLabel(unitIn.FQDN)) =>
        /\ ~unitOut[1].threw
        /\ WithoutTrailingDot(domainName(unitIn.FQDN))
              = WithoutTrailingDot(unitOut[1].parentDomain)

\* For "b.a" the splitter returned the parent domain "b.a", while the
\* entrypoint's zone name is "a".
C27_Witness ==
    /\ unitOp = "getDomainAndSubdomain"
    /\ unitIn.FQDN = <<"b", ".", "a">>
    /\ unitOut[1].parentDomain = <<"b", ".", "a">>
    /\ domainName(unitIn.FQDN) = <<"a">>

(***************************************************************************)
(* Claims about buildCDN (SpecCDN)                                         *)
(***************************************************************************)
\* The distribution among the resources a call of buildCDN registered.
Distributions ==
    {i \in 1..Len(unitOut) : unitOut[i].type = "aws:cloudfront:Distribution"}

TheDistribution == unitOut[CHOOSE i \in Distributions : TRUE].attrs

\* C13: a call of buildCDN with a route list registers one distribution; it
\* has exactly the two origins httpOrigin (the API) and s3Origin (the bucket),
\* one ordered cache behavior per route, in the order of the list, each with
\* the route as path pattern and s3Origin as target, and a default behavior
\* that targets httpOrigin with the caching-disabled policy.
C13_BehaviorsFollowRoutes ==
    unitOp = "buildCDN" =>
        /\ Cardinality(Distributions) = 1
        /\ Len(TheDistribution.origins) = 2
        /\ {<<TheDistribution.origins[i].originId,
              TheDistribution.origins[i].domainName>> : i \in 1..2}
              = {<<"httpOrigin", <<"API">>>>,
                 <<"s3Origin", <<"StaticContentBucket">>>>}
        /\ Len(TheDistribution.orderedCacheBehaviors) = Len(unitIn.routes)
        /\ \A i \in 1..Len(unitIn.routes) :
              /\ TheDistribution.orderedCacheBehaviors[i].pathPattern
                    = unitIn.routes[i]
              /\ TheDistribution.orderedCacheBehaviors[i].targetOriginId
                    = "s3Origin"
        /\ TheDistribution.defaultCacheBehavior.targetOriginId = "httpOrigin"
        /\ TheDistribution.defaultCacheBehavior.cachePolicy
              = "Managed-CachingDisabled"

\* buildCDN was called with the routes b/*, a/* and registered a distribution
\* with these two behaviors in this order.
C13_Witness ==
    /\ unitOp = "buildCDN"
    /\ unitIn.routes = <<<<"b", "/", "*">>, <<"a", "/", "*">>>>
    /\ Len(TheDistribution.orderedCacheBehaviors) = 2
    /\ TheDistribution.orderedCacheBehaviors[1].pathPattern = <<"b", "/", "*">>
    /\ TheDistribution.orderedCacheBehaviors[2].pathPattern = <<"a", "/", "*">>

\* C14 as stated: the aliases and the viewer certificate of the distribution
\* follow the FQDN and the certificate ARN the caller has for the call: with
\* an FQDN the aliases are that FQDN and the certificate is the given ARN with
\* SNI-only support; with none the aliases are undefined and the CloudFront
\* default certificate is used.
C14_Original ==
    unitOp = "buildCDN" =>
        IF unitIn.FQDN # <<>>
        THEN /\ TheDistribution.aliases = Defined(<<unitIn.FQDN>>)
             /\ TheDistribution.viewerCertificate
                   = [acmCertificateArn |-> unitIn.certificateArn,
                      sslSupportMethod |-> "sni-only"]
        ELSE /\ TheDistribution.aliases = Undefined
             /\ TheDistribution.viewerCertificate
                   = [cloudfrontDefaultCertificate |-> TRUE]

\* buildCDN was called for the domain "b.a" with a certificate ARN while
\* process.env.FQDN was unset, and registered a distribution without aliases
\* that uses the default certificate.
C14_Witness ==
    /\ unitOp = "buildCDN"
    /\ unitIn.FQDN = <<"b", ".", "a">>
    /\ unitIn.envFQDN = <<>>
    /\ unitIn.certificateArn = <<"CertificateValidation">>
    /\ TheDistribution.aliases = Undefined
    /\ TheDistribution.viewerCertificate = [cloudfrontDefaultCertificate |-> TRUE]

(***************************************************************************)
(* Claims about the bucket policy (SpecCDN)                                *)
(***************************************************************************)
\* The policy document of the bucket policy a call of buildCDN registered.
BucketPolicies ==
    {i \in 1..Len(unitOut) : unitOut[i].type = "aws:s3:BucketPolicy"}

TheBucketPolicy == unitOut[CHOOSE i \in BucketPolicies : TRUE].attrs.policy

\* Requests to the bucket: who asks, for what, on the bucket or on an object,
\* over TLS or not, and on behalf of which distribution.
S3Requests ==
    [principal : {"cloudfront.amazonaws.com", "anonymous"},
     action : {"s3:GetObject", "s3:PutObject"},
     resource : {"StaticContentBucket.arn/*", "StaticContentBucket.arn"},
     secureTransport : {"true", "false"},
     sourceArn : {"CloudFrontDistribution.arn", "other.arn"}]

\* A statement applies to a request: principal, action, resource and the
\* condition match.
Applies(stmt, req) ==
    /\ \/ "*" \in stmt.principals.identifiers
       \/ req.principal \in stmt.principals.identifiers
    /\ \/ "s3:*" \in stmt.actions
       \/ req.action \in stmt.actions
    /\ req.resource \in stmt.resources
    /\ IF stmt.condition.variable = "AWS:SourceArn"
       THEN req.sourceArn \in stmt.condition.values
       ELSE req.secureTransport \in stmt.condition.values

\* The policy grants a request: an Allow statement applies and no Deny
\* statement does.
Grants(policy, req) ==
    /\ \E i \in 1..Len(policy) :
          policy[i].effect = "Allow" /\ Applies(policy[i], req)
    /\ \A i \in 1..Len(policy) :
          policy[i].effect = "Deny" => ~Applies(policy[i], req)

\* C21 as stated: the bucket policy of buildCDN has exactly two statements;
\* the first lets only the CDN service read objects, and only when the
\* source ARN is the distribution's; the second denies every principal every
\* S3 action on the bucket and its objects when the request is not over
\* secure transport; the policy grants no request over insecure transport.
C21_Original ==
    unitOp = "buildCDN" =>
        /\ Cardinality(BucketPolicies) = 1
        /\ Len(TheBucketPolicy) = 2
        /\ TheBucketPolicy[1].effect = "Allow"
        /\ TheBucketPolicy[1].principals.identifiers
              = {"cloudfront.amazonaws.com"}
        /\ TheBucketPolicy[1].actions = {"s3:GetObject"}
        /\ TheBucketPolicy[1].condition
              = [test |-> "StringEquals", variable |-> "AWS:SourceArn",
                 values |-> {"CloudFrontDistribution.arn"}]
        /\ TheBucketPolicy[2].effect = "Deny"
        /\ TheBucketPolicy[2].principals.identifiers = {"*"}
        /\ TheBucketPolicy[2].actions = {"s3:*"}
        /\ TheBucketPolicy[2].resources
              = {"StaticContentBucket.arn/*", "StaticContentBucket.arn"}
        /\ TheBucketPolicy[2].condition
              = [test |-> "Bool", variable |-> "aws:SecureTransport",
                 values |-> {"false"}]
        /\ \A req \in S3Requests :
              req.secureTransport = "false" => ~Grants(TheBucketPolicy, req)

\* buildCDN registered a bucket policy whose second statement has effect
\* Allow, and the policy grants anyone a write to an object over plain HTTP.
C21_Witness ==
    /\ unitOp = "buildCDN"
    /\ TheBucketPolicy[2].effect = "Allow"
    /\ Grants(TheBucketPolicy,
              [principal |-> "anonymous", action |-> "s3:PutObject",
               resource |-> "StaticContentBucket.arn/*",
               secureTransport |-> "false", sourceArn |-> "other.arn"])

(***************************************************************************)
(* Claims about the route list (SpecRoutes)                                *)
(***************************************************************************)
\* Number of non-empty comma-separated patterns in a string: the positions
\* where a pattern starts.
Patterns(str) ==
    Cardinality({i \in 1..Len(str) :
                    /\ str[i] # ","
                    /\ i = 1 \/ str[i - 1] = ","})

\* C28 as stated: the distribution has one ordered cache behavior per
\* non-empty comma-separated pattern of ROUTES; with ROUTES unset or empty it
\* has none; and no behavior has an empty path pattern.
C28_Original ==
    unitOp = "routes" =>
        /\ Len(TheDistribution.orderedCacheBehaviors)
              = Patterns(unitIn.ROUTES.items)
        /\ unitIn.ROUTES.items = <<>> =>
              TheDistribution.orderedCacheBehaviors = <<>>
        /\ \A i \in 1..Len(TheDistribution.orderedCacheBehaviors) :
              TheDistribution.orderedCacheBehaviors[i].pathPattern # <<>>

\* ROUTES was set to the empty string, and the distribution has one ordered
\* cache behavior, with an empty path pattern.
C28_Witness ==
    /\ unitOp = "routes"
    /\ unitIn.ROUTES = Defined(<<>>)
    /\ Len(TheDistribution.orderedCacheBehaviors) = 1
    /\ TheDistribution.orderedCacheBehaviors[1].pathPattern = <<>>

(***************************************************************************)
(* Claims about the OPTIONS handler (SpecOptions)                          *)
(***************************************************************************)
\* The request's origin header is one of the configured allowed origins.
OriginAllowed ==
    /\ unitIn.event.origin.defined
    /\ \E i \in 1..Len(unitIn.allowedOrigins) :
          unitIn.allowedOrigins[i] = unitIn.event.origin.items

\* C29: the handler answers every request with status 204; the
\* Access-Control-Allow-Origin header of the answer is the request's origin
\* when that origin is in the configured list of allowed origins, and is
\* absent for every other request (it is never a wildcard).
C29_AllowOriginOnlyForAllowed ==
    unitOp = "handler" =>
        /\ unitOut[1].statusCode = 204
        /\ OriginAllowed =>
              unitOut[1].headers.allowOrigin = unitIn.event.origin
        /\ ~OriginAllowed => ~unitOut[1].headers.allowOrigin.defined
        /\ unitOut[1].headers.allowOrigin # Defined(<<"*">>)

\* A request whose origin holds a quote was answered with that origin, the
\* second of the two allowed ones.
C29_Witness ==
    /\ unitOp = "handler"
    /\ unitIn.allowedOrigins = <<<<"a">>, <<"a", "\"">>>>
    /\ unitIn.event.origin = Defined(<<"a", "\"">>)
    /\ unitOut[1].statusCode = 204
    /\ unitOut[1].headers.allowOrigin = Defined(<<"a", "\"">>)

(***************************************************************************)
(* Claims about the teardown script (SpecDestroy)                          *)
(***************************************************************************)
\* The .env file exists and the last of its lines for the key iac gives this
\* value.
SetsIac(value) ==
    /\ unitIn.dotenv.exists
    /\ \E i \in 1..Len(unitIn.dotenv.lines) :
          /\ unitIn.dotenv.lines[i] = [key |-> "iac", value |-> value]
          /\ \A j \in (i + 1)..Len(unitIn.dotenv.lines) :
                unitIn.dotenv.lines[j].key # "iac"

\* The commands the script spawned that are a destroy of this toolchain.
Spawned(file, first) ==
    {i \in 1..Len(unitOut) :
        /\ unitOut[i].command = file
        /\ unitOut[i].args[1] = first}

\* C30: an invocation of the teardown script spawns at most one command; it
\* spawns `cdk destroy` only when .env sets iac to "cdk" and `pulumi destroy`
\* only when .env sets iac to "pulumi"; it spawns nothing when .env is
\* missing, has no iac key or names another toolchain.
C30_AtMostOneDestroy ==
    unitOp = "destroy" =>
        /\ Len(unitOut) <= 1
        /\ Spawned("npx", "cdk") # {} => SetsIac("cdk")
        /\ Spawned("pulumi", "destroy") # {} => SetsIac("pulumi")
        /\ (~SetsIac("cdk") /\ ~SetsIac("pulumi")) => unitOut = <<>>

\* With a .env that first names another toolchain and then sets iac to
\* "pulumi", the script spawned `pulumi destroy` and nothing else.
C30_Witness ==
    /\ unitOp = "destroy"
    /\ unitIn.dotenv.lines = <<[key |-> "iac", value |-> "other"],
                               [key |-> "iac", value |-> "pulumi"]>>
    /\ Len(unitOut) = 1
    /\ unitOut[1].command = "pulumi"
    /\ unitOut[1].args[1] = "destroy"

(***************************************************************************)
(* Claims about what a deployment declares (SpecGraph)                     *)
(***************************************************************************)
\* A resource of this type and logical name has been registered.
IsDeclared(type, name) ==
    \E i \in declared : Stmt(i).type = type /\ Stmt(i).name = name

\* How many statements of the program register a resource of this name.
TimesDeclared(name) ==
    Cardinality({i \in Positions(config) :
                    /\ Programs[config][i].kind = "resource"
                    /\ Programs[config][i].name = name})

CertificateDeclared == IsDeclared("aws:acm:Certificate", <<"Certificate">>)

ValidationRecordDeclared ==
    IsDeclared("aws:route53:Record", config.fqdn \o <<".validation">>)

CertificateValidationDeclared ==
    IsDeclared("aws:acm:CertificateValidation", <<"CertificateValidation">>)

AliasRecordDeclared == IsDeclared("aws:route53:Record", config.fqdn)

\* The resources every deployment has: role, server function, bucket,
\* distribution, OPTIONS function, stage and invalidation command.
CoreNames ==
    {<<"IamForLambda">>, <<"LambdaServerFunctionHandler">>,
     <<"StaticContentBucket">>, <<"CloudFrontDistribution">>,
     <<"OptionsLambda">>, <<"ApiStage">>, <<"Invalidate">>}

CoreDeclaredOnce ==
    \A name \in CoreNames :
        /\ TimesDeclared(name) = 1
        /\ \E i \in declared : Stmt(i).name = name

HasLink(entries) == \E i \in 1..Len(entries) : entries[i].kind \in LinkKinds

EntriesOfKind(entries, kind) ==
    {entries[i] : i \in {j \in 1..Len(entries) : entries[j].kind = kind}}

\* The disk under the root is a readable tree of directories, regular files
\* and fifos, without symbolic links.
IsTree ==
    /\ fsIn.disk.root.error = "none"
    /\ ~HasLink(fsIn.disk.root.entries)
    /\ EntriesOfKind(fsIn.disk.root.entries, "dir") # {} =>
          /\ fsIn.disk.child.error = "none"
          /\ ~HasLink(fsIn.disk.child.entries)

\* The paths, relative to the root and separated by '/', of the regular files
\* of such a tree.
TreeFiles ==
    {<<e.name>> : e \in EntriesOfKind(fsIn.disk.root.entries, "file")}
    \cup {<<d.name, "/", f.name>> :
            d \in EntriesOfKind(fsIn.disk.root.entries, "dir"),
            f \in EntriesOfKind(fsIn.disk.child.entries, "file")}

ObjectKeys == {crawl.objects[i].attrs.key : i \in 1..Len(crawl.objects)}

\* C16: the crawl of a tree does not fail, and when it is over uploadStatic
\* has registered exactly one bucket object per regular file of the tree and
\* none for anything else; each has the file's path relative to the root as
\* key, the file as source and the given bucket as bucket.
C16_OneObjectPerFile ==
    IsTree =>
        /\ crawl.status # "failed"
        /\ crawl.status = "done" =>
              /\ Len(crawl.objects) = Cardinality(TreeFiles)
              /\ ObjectKeys = TreeFiles
              /\ \A i \in 1..Len(crawl.objects) :
                    /\ crawl.objects[i].type = "aws:s3:BucketObject"
                    /\ crawl.objects[i].attrs.bucket = <<"StaticContentBucket">>
                    /\ crawl.objects[i].attrs.source
                          = fsIn.path \o <<"/">> \o crawl.objects[i].attrs.key

\* The crawl of a root with the file a and the directory r holding the file a
\* is over, with the keys "a" and "r/a".
C16_Witness ==
    /\ IsTree
    /\ crawl.status = "done"
    /\ Len(crawl.objects) = 2
    /\ ObjectKeys = {<<"a">>, <<"r", "/", "a">>}

\* C17: two registered objects never have the same key: files with different
\* local paths get different keys, and no path is visited twice.
C17_KeysInjective ==
    \A i, j \in 1..Len(crawl.objects) :
        /\ crawl.objects[i].attrs.source # crawl.objects[j].attrs.source =>
              crawl.objects[i].attrs.key # crawl.objects[j].attrs.key
        /\ i # j => crawl.objects[i].attrs.key # crawl.objects[j].attrs.key

\* Under the root "r/" the crawl is over with two objects, one for a file
\* whose path below the root repeats the root's name.
C17_Witness ==
    /\ fsIn.path = <<"r", "/">>
    /\ crawl.status = "done"
    /\ Len(crawl.objects) = 2
    /\ <<"r", "/", "r">> \in ObjectKeys

\* C18: whatever uploads have been done, in whatever order and however often,
\* the bucket holds exactly the sources of the uploaded objects at their
\* keys; so once every object is uploaded its content does not depend on the
\* order, the interleaving or the repetitions.
C18_UploadsCommute ==
    s3.content = {<<crawl.objects[i].attrs.key, crawl.objects[i].attrs.source>> :
                    i \in s3.done}

\* Two objects were registered and both are uploaded.
C18_Witness ==
    /\ crawl.status = "done"
    /\ Len(crawl.objects) = 2
    /\ s3.done = 1..2
    /\ Cardinality(s3.content) = 2

\* C19 as stated: the crawl never enters a directory through a symbolic link,
\* and so never runs into the system's limit on links.
C19_Original ==
    /\ \A i \in 1..Len(crawl.stack) : crawl.stack[i].links = 0
    /\ crawl.error # "ELOOP"

\* The root holds a link to itself and the crawl has ended with ELOOP after
\* descending through it.
C19_Witness ==
    /\ \E i \in 1..Len(fsIn.disk.root.entries) :
          fsIn.disk.root.entries[i].kind = "linkToRoot"
    /\ crawl.status = "failed"
    /\ crawl.error = "ELOOP"
    /\ Len(crawl.visited) > MaxLinks + 1

\* C20: a read that fails is the last thing the crawl does: it ends every
\* call of crawlDirectory with the error, and nothing is read after it.
C20_ErrorAborts ==
    /\ \A i \in 1..Len(crawl.visited) :
          ~crawl.visited[i].ok =>
              /\ i = Len(crawl.visited)
              /\ crawl.status = "failed"
              /\ crawl.error \in {"ENOENT", "EACCES", "ELOOP"}
              /\ crawl.stack = <<>>
    /\ crawl.status = "failed" =>
          /\ crawl.visited # <<>>
          /\ ~crawl.visited[Len(crawl.visited)].ok

\* The first of two entries of the root is an unreadable directory: the crawl
\* has failed with EACCES without looking at the second.
C20_Witness ==
    /\ Len(fsIn.disk.root.entries) = 2
    /\ fsIn.disk.root.entries[1].kind = "dir"
    /\ fsIn.disk.root.entries[2].kind = "file"
    /\ crawl.status = "failed"
    /\ crawl.error = "EACCES"
    /\ Len(crawl.visited) = 2
    /\ crawl.objects = <<>>

====
